---- MODULE Spec2Model ----
(***************************************************************************)
(* Model of automl/docker.py: DockerBenchmark, the benchmark runner that   *)
(* builds a per-framework docker image (setup) and runs benchmark jobs in  *)
(* containers (run, run_one).                                              *)
(*                                                                         *)
(* Representation of Python values                                         *)
(*   - A command line (a Python str handed to run_cmd) is represented by   *)
(*     the list of its fields, s.split(' '): "a  b" is <<"a", "", "b">>    *)
(*     and "" is <<"">>.  "{x} {y}".format(...) is therefore the           *)
(*     concatenation of the two field lists.  Argv(cmd) is what the shell  *)
(*     makes of it (the non-empty fields).                                 *)
(*   - The output text of the engine's image query is a sequence of        *)
(*     characters, so that strip() and the regular expression are computed *)
(*     character by character.  A character is the one-character string    *)
(*     that holds it; a character that a string of this language cannot    *)
(*     hold is written by its code point, as in "U+000B".                  *)
(*   - Names (framework, benchmark, task, job identifier) are strings,     *)
(*     built with \o as the source builds them with format().              *)
(*   - None is the string NoneT for names and [kind |-> "none"] for the    *)
(*     fold selector of run_one (None, an int, or a list of ints).         *)
(***************************************************************************)
EXTENDS Integers, Sequences, FiniteSets, TLC

(***************************************************************************)
(* Bounds of the model.                                                    *)
(***************************************************************************)
\* rconfig().max_parallel_jobs ranges over 1..MaxCeiling
MaxCeiling == 2
\* the requested parallel_jobs ranges over -Slack .. MaxCeiling + Slack
Slack == 1
\* the engine's answer to the image query has at most MaxOutLen characters
MaxOutLen == 3
\* the benchmark holds the tasks t1 .. t<NumTasks>
NumTasks == 2
\* every task has the folds 0 .. MaxFolds - 1
MaxFolds == 2

NoneT == "<None>"

(***************************************************************************)
(* Small library: what the Python built-ins used by the source compute.    *)
(***************************************************************************)
Digits == <<"0", "1", "2", "3", "4", "5", "6", "7", "8", "9">>

\* str(n) for an int
RECURSIVE str(_)
str(n) ==
    IF n < 0 THEN "-" \o str(-n)
    ELSE IF n < 10 THEN Digits[n + 1]
    ELSE str(n \div 10) \o Digits[(n % 10) + 1]

\* sep.join(parts), parts a list of strings
RECURSIVE join(_, _)
join(sep, parts) ==
    IF Len(parts) = 0 THEN ""
    ELSE IF Len(parts) = 1 THEN parts[1]
    ELSE parts[1] \o sep \o join(sep, Tail(parts))

\* s.lower(), on the framework names of the model
lower(s) ==
    CASE s = "H2O" -> "h2o"
      [] s = "TPOT" -> "tpot"
      [] OTHER -> s

\* the characters str.strip() removes: every character c of a Python str
\* with c.isspace()
Whitespace ==
    {"\t", "\n", "U+000B", "\f", "\r", "U+001C", "U+001D", "U+001E", "U+001F", " ",
     "U+0085", "U+00A0", "U+1680", "U+2000", "U+2001", "U+2002", "U+2003", "U+2004",
     "U+2005", "U+2006", "U+2007", "U+2008", "U+2009", "U+200A", "U+2028", "U+2029",
     "U+202F", "U+205F", "U+3000"}

RECURSIVE lstrip(_)
lstrip(s) ==
    IF Len(s) > 0 /\ Head(s) \in Whitespace THEN lstrip(Tail(s)) ELSE s

RECURSIVE rstrip(_)
rstrip(s) ==
    IF Len(s) > 0 /\ s[Len(s)] \in Whitespace
    THEN rstrip(SubSeq(s, 1, Len(s) - 1))
    ELSE s

\* s.strip()
strip(s) == rstrip(lstrip(s))

\* the character class [0-9a-f]
HexClass == {"0", "1", "2", "3", "4", "5", "6", "7", "8", "9",
             "a", "b", "c", "d", "e", "f"}

\* re.match(r'[0-9a-f]+', s): the pattern without its anchors
re_match_unanchored(s) ==
    \E k \in 1..Len(s) : \A i \in 1..k : s[i] \in HexClass

\* re.match(r'^[0-9a-f]+$', s) is not None.  Without re.MULTILINE, $ matches
\* at the end of the string and just before a newline that ends the string.
re_match_hex(s) ==
    \E k \in 1..Len(s) :
        /\ \A i \in 1..k : s[i] \in HexClass
        /\ \/ k = Len(s)
           \/ (k = Len(s) - 1 /\ s[Len(s)] = "\n")

\* what the shell passes on: the non-empty fields of a command line
IsField(w) == w # ""
Argv(cmd) == SelectSeq(cmd, IsField)

(***************************************************************************)
(* Collaborators that are not part of docker.py.                           *)
(***************************************************************************)
\* utils.run_cmd: returns the command's output, raises when it exits non-zero
run_cmd_raises(exit) == exit # 0

ExitCodes == {0, 1}

\* Benchmark.SetupMode
SetupMode == {"auto", "skip", "force"}

\* the framework definitions the resolver may supply
FrameworkDefs ==
    { [name |-> "h2o", author |-> "org", image |-> "", tag |-> "stable"],
      [name |-> "TPOT", author |-> "org", image |-> "", tag |-> "latest"],
      [name |-> "TPOT", author |-> "lab", image |-> "tpot-bench", tag |-> "latest"] }

benchmark_name == "small"
input_dir == "/data/in"
output_dir == "/data/out"

\* Benchmark._framework_dir
framework_dir(fdef) == "frameworks/" \o fdef.name

\* the benchmark definition: tasks t1..t<NumTasks>, each with MaxFolds folds
benchmark_def == [i \in 1..NumTasks |-> [name |-> "t" \o str(i), folds |-> MaxFolds]]

TaskNames == {benchmark_def[i].name : i \in 1..NumTasks}

\* Benchmark._get_task_def
get_task_def(task_name) ==
    CHOOSE t \in {benchmark_def[i] : i \in 1..NumTasks} : t.name = task_name

(***************************************************************************)
(* docker.py                                                               *)
(***************************************************************************)
\* DockerBenchmark.docker_image_name
docker_image_name(fdef) ==
    fdef.author \o "/"
        \o (IF fdef.image # "" THEN fdef.image ELSE lower(fdef.name))
        \o ":" \o fdef.tag

\* DockerBenchmark._validate: the value of self.parallel_jobs after the call
validate(pj, max) ==
    IF pj = 0 \/ pj > max THEN max ELSE pj

\* DockerBenchmark._docker_script
docker_script(fdef) == framework_dir(fdef) \o "/" \o "Dockerfile"

\* the command of _docker_image_exists
images_cmd(fdef) == <<"docker", "images", "-q", docker_image_name(fdef)>>

\* the mutation of docker_image_exists that drops the anchors of the pattern
docker_image_exists_unanchored(output) == re_match_unanchored(strip(output))

\* DockerBenchmark._docker_image_exists, on the output of the image query:
\* the truth value of the match object
docker_image_exists(output) == re_match_hex(strip(output))

\* the command of _build_docker_image
build_cmd(fdef, cache) ==
    <<"docker", "build">> \o <<(IF cache THEN "" ELSE "--no-cache")>>
        \o <<"-t", docker_image_name(fdef), "-f", docker_script(fdef), ".">>

\* the command of _upload_docker_image
upload_cmd(fdef) ==
    <<"docker", "login", "&&", "docker", "push", docker_image_name(fdef)>>

\* One effect of a call on the outside world: an engine command (with the
\* exit status the engine gave it) or the write of the build descriptor.
Event(kind, cmd, ok) == [kind |-> kind, cmd |-> cmd, ok |-> ok]

\* what the outside world answers during one setup call: the exit status and
\* output of the image query, whether the descriptor file can be written,
\* and the exit statuses of the build and of the push
SetupEnv(outputs) ==
    [query_exit : ExitCodes, output : outputs, write_ok : BOOLEAN,
     build_exit : ExitCodes, push_exit : ExitCodes]

\* setup, line 49: mode == SetupMode.skip
setup_skip_mutant(mode) == FALSE
setup_skips(mode) == mode = "skip"

\* setup, line 57: the cache argument of the build
build_cache_mutant(mode) == mode = "force"
build_cache(mode) == mode # "force"

\* setup, line 58: if upload
setup_uploads_mutant(upload) == TRUE
setup_uploads(upload) == upload

\* DockerBenchmark._generate_docker_script: the descriptor is rendered and
\* written over the file at docker_script; open/write raise when they fail
generate_docker_script(fdef, env) ==
    Event("write", <<docker_script(fdef)>>, env.write_ok)

\* DockerBenchmark._build_docker_image
build_docker_image(fdef, cache, env) ==
    Event("build", build_cmd(fdef, cache), ~run_cmd_raises(env.build_exit))

\* DockerBenchmark._upload_docker_image
upload_docker_image(fdef, env) ==
    Event("push", upload_cmd(fdef), ~run_cmd_raises(env.push_exit))

\* setup, lines 55-59: the image steps once the early returns are passed.
\* Each step raises out of setup when it fails; nothing is caught.
setup_image(fdef, mode, upload, env) ==
    LET write == generate_docker_script(fdef, env)
        build == build_docker_image(fdef, build_cache(mode), env)
        push  == upload_docker_image(fdef, env)
    IN  IF ~write.ok THEN [events |-> <<write>>, raised |-> TRUE]
        ELSE IF ~build.ok THEN [events |-> <<write, build>>, raised |-> TRUE]
        ELSE IF ~setup_uploads(upload)
             THEN [events |-> <<write, build>>, raised |-> FALSE]
        ELSE [events |-> <<write, build, push>>, raised |-> ~push.ok]

\* DockerBenchmark.setup: the effects of the call, in order, and whether it
\* ended with an exception
setup(fdef, mode, upload, env) ==
    IF setup_skips(mode) THEN [events |-> <<>>, raised |-> FALSE]
    ELSE IF mode = "auto"
    THEN LET query == Event("query", images_cmd(fdef), ~run_cmd_raises(env.query_exit))
         IN  IF ~query.ok THEN [events |-> <<query>>, raised |-> TRUE]
             ELSE IF docker_image_exists(env.output)
                  THEN [events |-> <<query>>, raised |-> FALSE]
             ELSE LET rest == setup_image(fdef, mode, upload, env)
                  IN  [events |-> <<query>> \o rest.events, raised |-> rest.raised]
    ELSE setup_image(fdef, mode, upload, env)

(***************************************************************************)
(* Jobs                                                                    *)
(***************************************************************************)
NoFold == [kind |-> "none", v |-> <<>>]
IntFold(f) == [kind |-> "int", v |-> <<f>>]
ListFold(s) == [kind |-> "list", v |-> s]

\* _make_job, line 90
job_folds(folds) ==
    IF folds.kind = "none" THEN <<>> ELSE [i \in 1..Len(folds.v) |-> str(folds.v[i])]

\* _make_job, line 101: the job's identifier
job_name(fdef, task_name, fs) ==
    "docker_" \o (IF task_name # NoneT /\ task_name # "" THEN task_name ELSE benchmark_name)
        \o "_" \o join(":", fs) \o "_" \o fdef.name

\* _make_job, lines 93-98: the parameters the job's action passes on
job_params(fdef, task_name, fs) ==
    <<fdef.name>> \o <<benchmark_name>>
        \o (IF task_name = NoneT THEN <<"">> ELSE <<"-t", task_name>>)
        \o (IF Len(fs) = 0 THEN <<"">> ELSE <<"-f">> \o fs)

\* DockerBenchmark._make_job
make_job(fdef, task_name, folds) ==
    LET fs == job_folds(folds)
    IN  [name |-> job_name(fdef, task_name, fs),
         task_name |-> task_name, folds |-> fs,   \* what the closure _run captures
         params |-> job_params(fdef, task_name, fs)]

\* DockerBenchmark._fold_job
fold_job(fdef, task_def, fold) == make_job(fdef, task_def.name, ListFold(<<fold>>))

\* the mutation of start_docker that mounts the input directory at /output
start_docker_swapped(fdef, script_params, exit) ==
    [cmd |-> <<"docker", "run", "-v", input_dir \o ":/output", "-v",
               output_dir \o ":/input", "--rm", docker_image_name(fdef)>>
             \o script_params
             \o <<"-i", "/input", "-o", "/output", "-s", "skip">>,
     raised |-> run_cmd_raises(exit)]

\* DockerBenchmark._start_docker: the command it runs, and whether it raises
\* (it catches nothing, so it raises when run_cmd does)
start_docker(fdef, script_params, exit) ==
    [cmd |-> <<"docker", "run", "-v", input_dir \o ":/input", "-v",
               output_dir \o ":/output", "--rm", docker_image_name(fdef)>>
             \o script_params
             \o <<"-i", "/input", "-o", "/output", "-s", "skip">>,
     raised |-> run_cmd_raises(exit)]

\* Benchmark._custom_task_jobs: one job per fold of the selector, all the
\* folds of the task when there is no selector
custom_task_jobs(fdef, task_def, fold) ==
    LET fs == IF fold.kind = "none" THEN [i \in 1..task_def.folds |-> i - 1] ELSE fold.v
    IN  [i \in 1..Len(fs) |-> fold_job(fdef, task_def, fs[i])]

\* Benchmark._benchmark_jobs: the jobs of every task of the benchmark
RECURSIVE benchmark_jobs_from(_, _)
benchmark_jobs_from(fdef, i) ==
    IF i > Len(benchmark_def) THEN <<>>
    ELSE custom_task_jobs(fdef, benchmark_def[i], NoFold) \o benchmark_jobs_from(fdef, i + 1)
benchmark_jobs(fdef) == benchmark_jobs_from(fdef, 1)

\* the mutation of run_job_list that never partitions the benchmark
run_job_list_mutant(fdef, pj) == <<make_job(fdef, NoneT, NoFold)>>

\* DockerBenchmark.run, lines 66-70
run_job_list(fdef, pj) ==
    IF pj = 1 THEN <<make_job(fdef, NoneT, NoFold)>> ELSE benchmark_jobs(fdef)

\* the mutation of run_one_job_list that forgets to look at parallel_jobs
run_one_job_list_mutant(fdef, pj, task_name, fold) ==
    IF fold.kind = "none" \/ (fold.kind = "list" /\ Len(fold.v) > 1)
    THEN <<make_job(fdef, task_name, fold)>>
    ELSE custom_task_jobs(fdef, get_task_def(task_name), fold)

\* DockerBenchmark.run_one, lines 76-81
run_one_job_list(fdef, pj, task_name, fold) ==
    IF pj = 1 /\ (fold.kind = "none" \/ (fold.kind = "list" /\ Len(fold.v) > 1))
    THEN <<make_job(fdef, task_name, fold)>>
    ELSE custom_task_jobs(fdef, get_task_def(task_name), fold)

\* Job.start, on the job's action _run (the closure of _make_job, which calls
\* _start_docker): an exception of the action is the job's failure
job_start(fdef, job, exit) ==
    LET r == start_docker(fdef, job.params, exit)
    IN  [job |-> job.name, cmd |-> r.cmd, exit |-> exit,
         outcome |-> IF r.raised THEN "failure" ELSE "success"]

\* Benchmark._run_jobs: every job is started, whatever became of the others;
\* it returns the outcomes and raises nothing
run_jobs(fdef, js, exits) ==
    [results |-> [i \in 1..Len(js) |-> job_start(fdef, js[i], exits[i])],
     raised |-> FALSE]

\* Benchmark._process_results: takes the collection over, raises nothing
process_results_raises(rs) == FALSE

(***************************************************************************)
(* The state machine: one DockerBenchmark object and its last call.        *)
(***************************************************************************)
VARIABLES
    framework_def,      \* self.framework_def
    max_parallel_jobs,  \* rconfig().max_parallel_jobs
    requested,          \* the parallel_jobs argument of the constructor
    parallel_jobs,      \* self.parallel_jobs
    pc,                 \* "new" before _validate has run, "ready" between calls,
                        \* "called" when a call has ended and its effects are on record
    op,                 \* the last call: "none", "validate", "setup", "run", "run_one"
    setup_in,           \* the arguments of the last setup call and what the world answered
    run_in,             \* the arguments of the last run/run_one call and the exit statuses
    events,             \* the effects of the last call on the engine and the file system
    raised,             \* whether the last call ended with an exception
    jobs,               \* the jobs the last run/run_one call made
    results,            \* what _run_jobs returned in the last run/run_one call
    handed,             \* whether the last call reached _process_results
    processed           \* the collection it passed to _process_results

vars == <<framework_def, max_parallel_jobs, requested, parallel_jobs, pc, op,
          setup_in, run_in, events, raised, jobs, results, handed, processed>>

\* the characters of the engine's answers
OutChars == {"a", "g", "\n"}

RECURSIVE SeqsUpTo(_, _)
SeqsUpTo(S, n) ==
    IF n = 0 THEN {<<>>}
    ELSE LET shorter == SeqsUpTo(S, n - 1)
         IN  shorter \cup {Append(q, c) : q \in shorter, c \in S}

\* the image id of the documentation, and the engine's error message
ExampleId == <<"a", "1", "b", "2", "c", "3", "d", "4", "\n">>
ExampleError == <<"E", "r", "r", "o", "r", ":", " ", "n", "o", " ", "s", "u", "c", "h",
                  " ", "i", "m", "a", "g", "e", "\n">>

\* answers padded with blanks, and two ids separated by a blank
ExamplePadded ==
    {<<" ", "a", "1">>, <<"a", "1", " ", "\n">>, <<"a", " ", "1">>, <<" ">>,
     <<"a", "1", "\f">>, <<"\f", "a", "1", "\n">>, <<"\f">>, <<"U+000B", "a", "1">>,
     <<"a", "1", "U+00A0">>, <<"a", "U+0085", "1">>, <<"U+001C", "a", "\r", "\n">>}

Outputs == SeqsUpTo(OutChars, MaxOutLen) \cup {ExampleId, ExampleError} \cup ExamplePadded

\* the fold selectors run_one may be given for a task with n folds: None, an
\* int, or a list of ints.  run_one checks nothing about them, so a list may
\* be empty, repeat a fold, or name the fold n, which the task does not have.
FoldSelectors(n) ==
    {NoFold}
        \cup {IntFold(f) : f \in 0..n}
        \cup {ListFold(q) : q \in SeqsUpTo(0..n, n)}

NoSetup ==
    [mode |-> "skip", upload |-> FALSE,
     env |-> [query_exit |-> 0, output |-> <<>>, write_ok |-> TRUE,
              build_exit |-> 0, push_exit |-> 0]]
NoRun == [task_name |-> NoneT, fold |-> NoFold, exits |-> <<>>]

Init ==
    /\ framework_def \in FrameworkDefs
    /\ max_parallel_jobs \in 1..MaxCeiling
    /\ requested \in (0 - Slack)..(MaxCeiling + Slack)
    /\ parallel_jobs = requested
    /\ pc = "new"
    /\ op = "none"
    /\ setup_in = NoSetup
    /\ run_in = NoRun
    /\ events = <<>>
    /\ raised = FALSE
    /\ jobs = <<>>
    /\ results = <<>>
    /\ handed = FALSE
    /\ processed = <<>>

\* the constructor's call of _validate
Validate ==
    /\ pc = "new"
    /\ pc' = "ready"
    /\ op' = "validate"
    /\ parallel_jobs' = validate(parallel_jobs, max_parallel_jobs)
    /\ setup_in' = NoSetup
    /\ run_in' = NoRun
    /\ events' = <<>>
    /\ raised' = FALSE
    /\ jobs' = <<>>
    /\ results' = <<>>
    /\ handed' = FALSE
    /\ processed' = <<>>
    /\ UNCHANGED <<framework_def, max_parallel_jobs, requested>>

\* setup(mode, upload)
Setup ==
    /\ pc = "ready"
    /\ \E mode \in SetupMode, upload \in BOOLEAN, env \in SetupEnv(Outputs) :
        LET r == setup(framework_def, mode, upload, env)
        IN  /\ setup_in' = [mode |-> mode, upload |-> upload, env |-> env]
            /\ events' = r.events
            /\ raised' = r.raised
    /\ op' = "setup"
    /\ run_in' = NoRun
    /\ jobs' = <<>>
    /\ results' = <<>>
    /\ handed' = FALSE
    /\ processed' = <<>>
    /\ pc' = "called"
    /\ UNCHANGED <<framework_def, max_parallel_jobs, requested, parallel_jobs>>

\* lines 71-73 and 82-84: results = self._run_jobs(jobs), then
\* self._process_results(results).  Neither line is guarded: an exception of
\* _run_jobs leaves the call before _process_results is reached.
RunJobs(js, exits) ==
    LET r == run_jobs(framework_def, js, exits)
        rs == r.results
    IN  /\ jobs' = js
        /\ events' = [i \in 1..Len(rs) |-> Event("run", rs[i].cmd, rs[i].exit = 0)]
        /\ IF r.raised
           THEN /\ results' = <<>>
                /\ raised' = TRUE
                /\ handed' = FALSE
                /\ processed' = <<>>
           ELSE /\ results' = rs
                /\ handed' = TRUE
                /\ processed' = rs
                /\ raised' = process_results_raises(rs)

\* run()
Run ==
    /\ pc = "ready"
    /\ LET js == run_job_list(framework_def, parallel_jobs)
       IN  \E exits \in [1..Len(js) -> ExitCodes] :
             /\ run_in' = [task_name |-> NoneT, fold |-> NoFold, exits |-> exits]
             /\ RunJobs(js, exits)
    /\ op' = "run"
    /\ setup_in' = NoSetup
    /\ pc' = "called"
    /\ UNCHANGED <<framework_def, max_parallel_jobs, requested, parallel_jobs>>

\* run_one(task_name, fold)
RunOne ==
    /\ pc = "ready"
    /\ \E task_name \in TaskNames :
         \E fold \in FoldSelectors(get_task_def(task_name).folds) :
           LET js == run_one_job_list(framework_def, parallel_jobs, task_name, fold)
           IN  \E exits \in [1..Len(js) -> ExitCodes] :
                 /\ run_in' = [task_name |-> task_name, fold |-> fold, exits |-> exits]
                 /\ RunJobs(js, exits)
    /\ op' = "run_one"
    /\ setup_in' = NoSetup
    /\ pc' = "called"
    /\ UNCHANGED <<framework_def, max_parallel_jobs, requested, parallel_jobs>>

\* the call has returned to its caller, which may call again: setup, run and
\* run_one leave the fields of the object as they found them
Return ==
    /\ pc = "called"
    /\ pc' = "ready"
    /\ op' = "none"
    /\ setup_in' = NoSetup
    /\ run_in' = NoRun
    /\ events' = <<>>
    /\ raised' = FALSE
    /\ jobs' = <<>>
    /\ results' = <<>>
    /\ handed' = FALSE
    /\ processed' = <<>>
    /\ UNCHANGED <<framework_def, max_parallel_jobs, requested, parallel_jobs>>

Next == Validate \/ Setup \/ Run \/ RunOne \/ Return

Spec == Init /\ [][Next]_vars

(***************************************************************************)
(* Vocabulary of the properties.                                           *)
(***************************************************************************)
Range(q) == {q[i] : i \in 1..Len(q)}

\* the position of the first w in q, 0 when there is none
IndexOf(q, w) ==
    IF w \in Range(q) THEN CHOOSE i \in 1..Len(q) : q[i] = w /\ \A j \in 1..(i - 1) : q[j] # w
    ELSE 0

\* the events of the last call of one kind
IsQuery(e) == e.kind = "query"
IsStep(e) == e.kind # "query"
IsBuild(e) == e.kind = "build"
Builds == SelectSeq(events, IsBuild)
Steps == SelectSeq(events, IsStep)
QueryAnswered == Len(events) > 0 /\ events[1].kind = "query" /\ events[1].ok

\* the engine prefix and the final arguments of a container invocation
RunPrefix ==
    <<"docker", "run", "-v", input_dir \o ":/input", "-v", output_dir \o ":/output", "--rm",
      docker_image_name(framework_def)>>
SkipSuffix == <<"-i", "/input", "-o", "/output", "-s", "skip">>

\* the in-container arguments of invocation i: what follows the image name
InContainer(i) ==
    LET a == Argv(events[i].cmd) IN SubSeq(a, Len(RunPrefix) + 1, Len(a))

\* the task an argument list names with -t, NoneT when it names none
TaskOf(a) == IF IndexOf(a, "-t") = 0 THEN NoneT ELSE a[IndexOf(a, "-t") + 1]

\* the folds an argument list names: what stands between -f and -i
FoldsOf(a) ==
    IF IndexOf(a, "-f") = 0 THEN <<>>
    ELSE SubSeq(a, IndexOf(a, "-f") + 1, IndexOf(a, "-i") - 1)

\* the folds of a selector, as the job factory prints them
Requested(fold) == [i \in 1..Len(fold.v) |-> str(fold.v[i])]

\* each fold behind a -f of its own
RECURSIVE EachPrefixed(_)
EachPrefixed(fs) ==
    IF Len(fs) = 0 THEN <<>> ELSE <<"-f", Head(fs)>> \o EachPrefixed(Tail(fs))

\* a line that holds a hexadecimal identifier and nothing else but blanks around it
HexLine(o) ==
    \E i \in 1..Len(o) : \E j \in i..Len(o) :
        /\ \A k \in i..j : o[k] \in HexClass
        /\ \A k \in (1..(i - 1)) \cup ((j + 1)..Len(o)) : o[k] \in Whitespace

IsRunCall == op \in {"run", "run_one"}

(***************************************************************************)
(* Properties                                                              *)
(***************************************************************************)

\* C2 (as claimed): after _validate the stored parallel_jobs is the requested
\* value when it lies in 1..max_parallel_jobs and max_parallel_jobs otherwise.
C2_Clamped ==
    pc # "new" =>
        parallel_jobs = (IF 1 <= requested /\ requested <= max_parallel_jobs
                         THEN requested ELSE max_parallel_jobs)

\* C3: a setup call in mode auto builds only when the existence check answered
\* false, and then with the layer cache; a setup call in mode force never asks
\* whether the image exists and, once the descriptor is written, builds with
\* --no-cache, whatever the engine would have answered.
C3_AutoForceBuild ==
    op = "setup" =>
        /\ setup_in.mode = "auto" =>
              /\ Len(Builds) > 0 =>
                    /\ QueryAnswered
                    /\ ~docker_image_exists(setup_in.env.output)
              /\ (QueryAnswered /\ ~docker_image_exists(setup_in.env.output)
                    /\ setup_in.env.write_ok) => Len(Builds) = 1
              /\ \A i \in 1..Len(Builds) : "--no-cache" \notin Range(Builds[i].cmd)
        /\ setup_in.mode = "force" =>
              /\ \A i \in 1..Len(events) : events[i].kind # "query"
              /\ setup_in.env.write_ok => Len(Builds) = 1
              /\ \A i \in 1..Len(Builds) : "--no-cache" \in Range(Argv(Builds[i].cmd))

C3_Witness ==
    /\ op = "setup"
    /\ setup_in.mode = "force"
    /\ HexLine(setup_in.env.output)
    /\ Len(Builds) = 1
    /\ "--no-cache" \in Range(Builds[1].cmd)

\* C4: a setup call in mode skip has no effect at all: no query, no descriptor
\* write, no build, no publish, whatever the image's existence and the upload flag.
C4_SkipDoesNothing ==
    (op = "setup" /\ setup_in.mode = "skip") => (events = <<>> /\ ~raised)

C4_Witness ==
    /\ op = "setup"
    /\ setup_in.mode = "skip"
    /\ setup_in.upload
    /\ HexLine(setup_in.env.output)
    /\ events = <<>>

\* C5: the image steps of one setup call are a prefix of descriptor write,
\* build, publish, each at most once; a step is attempted only after the ones
\* before it succeeded; a failed step ends the call with an exception; publish
\* is attempted only when upload was requested, and never when auto found the
\* image present.
C5_StepOrder ==
    op = "setup" =>
        /\ Len(Steps) <= 3
        /\ \A i \in 1..Len(Steps) : Steps[i].kind = <<"write", "build", "push">>[i]
        /\ \A i \in 1..(Len(events) - 1) : events[i].ok
        /\ raised <=> (\E i \in 1..Len(events) : ~events[i].ok)
        /\ Len(Steps) = 3 => setup_in.upload
        /\ (setup_in.mode = "auto" /\ QueryAnswered /\ HexLine(setup_in.env.output))
              => Steps = <<>>

C5_Witness ==
    /\ op = "setup"
    /\ setup_in.upload
    /\ Len(Steps) = 2
    /\ Steps[1].kind = "write" /\ Steps[1].ok
    /\ Steps[2].kind = "build" /\ ~Steps[2].ok
    /\ raised

\* C6: run() with parallel_jobs = 1 makes one job and one container invocation
\* for the whole benchmark: the identifier is made of the benchmark name and
\* the framework name, the in-container arguments are the framework, the
\* benchmark and the -i/-o/-s suffix, with no -t and no -f.  With
\* parallel_jobs > 1 run() makes the jobs of the partition function.
C6_RunJobs ==
    op = "run" =>
        /\ parallel_jobs = 1 =>
              /\ Len(jobs) = 1
              /\ Len(events) = 1
              /\ jobs[1].name = "docker_" \o benchmark_name \o "__" \o framework_def.name
              /\ InContainer(1) = <<framework_def.name, benchmark_name>> \o SkipSuffix
              /\ "-t" \notin Range(events[1].cmd)
              /\ "-f" \notin Range(events[1].cmd)
        /\ parallel_jobs > 1 =>
              /\ jobs = benchmark_jobs(framework_def)
              /\ Len(jobs) = NumTasks * MaxFolds
              /\ \A i \in 1..Len(jobs) : TaskOf(InContainer(i)) \in TaskNames

C6_Witness ==
    /\ op = "run"
    /\ parallel_jobs = 1
    /\ framework_def.name = "h2o"
    /\ Len(jobs) = 1
    /\ jobs[1].name = "docker_small__h2o"
    /\ Argv(jobs[1].params) = <<"h2o", "small">>

\* C7: run_one with parallel_jobs = 1 and no fold selector or a list of more
\* than one fold makes one job for the task with all the requested folds; in
\* every other case it makes one job per requested fold (per fold of the task
\* when there is no selector), each naming the task and its own fold alone.
C7_RunOneJobs ==
    op = "run_one" =>
        LET f == run_in.fold
            t == run_in.task_name
            all == [i \in 1..get_task_def(t).folds |-> str(i - 1)]
            wanted == IF f.kind = "none" THEN all ELSE Requested(f)
        IN  IF parallel_jobs = 1 /\ (f.kind = "none" \/ Len(f.v) > 1)
            THEN /\ Len(jobs) = 1
                 /\ Len(events) = 1
                 /\ TaskOf(InContainer(1)) = t
                 /\ FoldsOf(InContainer(1)) = Requested(f)
            ELSE /\ Len(jobs) = Len(wanted)
                 /\ Len(events) = Len(wanted)
                 /\ \A i \in 1..Len(jobs) :
                       /\ TaskOf(InContainer(i)) = t
                       /\ FoldsOf(InContainer(i)) = <<wanted[i]>>

\* a request for fold 0 alone with parallel_jobs = 1: one job, with -f 0
C7_Witness ==
    /\ op = "run_one"
    /\ parallel_jobs = 1
    /\ run_in.fold \in {IntFold(0), ListFold(<<0>>)}
    /\ Len(jobs) = 1
    /\ \E k \in 1..(Len(events[1].cmd) - 1) :
          events[1].cmd[k] = "-f" /\ events[1].cmd[k + 1] = "0"

\* C8 (as claimed): the jobs of one run have pairwise distinct identifiers.
C8_DistinctNames ==
    IsRunCall =>
        \A i, j \in 1..Len(jobs) : i # j => jobs[i].name # jobs[j].name

\* C9 (as claimed): every container invocation mounts input_dir at /input and
\* output_dir at /output, asks for removal, and passes the framework, then
\* either the benchmark or -t <task>, then each requested fold behind its own
\* -f, then -i /input -o /output -s skip.
C9_CommandLineAsClaimed ==
    IsRunCall =>
        \A i \in 1..Len(events) :
            Argv(events[i].cmd) =
                RunPrefix \o <<framework_def.name>>
                    \o (IF jobs[i].task_name = NoneT THEN <<benchmark_name>>
                        ELSE <<"-t", jobs[i].task_name>>)
                    \o EachPrefixed(jobs[i].folds)
                    \o SkipSuffix

\* C9 (amended): every container invocation mounts input_dir at /input and
\* output_dir at /output, asks for removal, and passes the framework, then
\* the benchmark, then -t <task> when the job is for a task, then, when folds
\* are requested, one -f followed by all of them, then
\* -i /input -o /output -s skip.
C9_CommandLine ==
    IsRunCall =>
        \A i \in 1..Len(events) :
            Argv(events[i].cmd) =
                RunPrefix \o <<framework_def.name, benchmark_name>>
                    \o (IF jobs[i].task_name = NoneT THEN <<>>
                        ELSE <<"-t", jobs[i].task_name>>)
                    \o (IF Len(jobs[i].folds) = 0 THEN <<>> ELSE <<"-f">> \o jobs[i].folds)
                    \o SkipSuffix

\* one invocation for a task and two folds
C9_Witness ==
    /\ op = "run_one"
    /\ Len(events) = 1
    /\ jobs[1].task_name = "t1"
    /\ jobs[1].folds = <<"0", "1">>
    /\ InContainer(1) = <<framework_def.name, "small", "-t", "t1", "-f", "0", "1">> \o SkipSuffix

\* C10: the existence check answers "exists" exactly for an output that is a
\* hexadecimal identifier on a line of its own; for any other output, the
\* empty one included, setup in mode auto goes on to write the descriptor,
\* and the check itself raises nothing.
C10_ExistsOnlyHexLine ==
    /\ docker_image_exists(ExampleId)
    /\ ~docker_image_exists(<<>>)
    /\ ~docker_image_exists(ExampleError)
    /\ (op = "setup" /\ setup_in.mode = "auto" /\ QueryAnswered) =>
          IF HexLine(setup_in.env.output)
          THEN Len(events) = 1 /\ ~raised
          ELSE /\ Len(events) >= 2
               /\ events[2].kind = "write"
               /\ raised => (\E i \in 2..Len(events) : ~events[i].ok)

C10_Witness ==
    /\ op = "setup"
    /\ setup_in.mode = "auto"
    /\ setup_in.env.output = ExampleError
    /\ QueryAnswered
    /\ Len(events) >= 2
    /\ events[2].kind = "write"

====
